---- MODULE Spec2Model ----
(***************************************************************************)
(* A model of the bitcoin primitives of this repository: prime-field and   *)
(* elliptic-curve arithmetic (algebra.py), the secp256k1 specialisation    *)
(* and ECDSA (encryption.py), the varint codec (encoding_tools.py), the    *)
(* Script opcodes (ops.py) and the Script parser, serializer and stack     *)
(* machine (script.py).                                                    *)
(*                                                                         *)
(* Byte strings are sequences over 0..255.  Python exceptions are values:  *)
(* an operator that can raise returns a record whose field exc names the   *)
(* exception ("none" when it returns normally).                            *)
(*                                                                         *)
(* The secp256k1 constants P and N do not fit the integers of the model    *)
(* checker; the model keeps the curve y^2 = x^3 + 7 and replaces P, N and  *)
(* G by the smallest prime P = 3 (mod 4) for which that curve has prime    *)
(* order, with coordinates of CoordLen bytes instead of 32.                *)
(***************************************************************************)
EXTENDS Integers, Sequences, FiniteSets, TLC

VARIABLES
    \* FieldElement under test (algebra.py)
    fe, feErr, feLast,
    \* Point under test (algebra.py)
    pt, ptErr, ptLast,
    \* varint codec (encoding_tools.py)
    vIn, vBytes, vOut, vPc,
    \* Script.parse / Script.serialize (script.py)
    stream, script, parsed, serialized, codecPc,
    \* Script.evaluate (script.py): the local variables of one call
    commands, stack, z, result, lastOp,
    \* encode_num / decode_num (ops.py)
    nIn, nBytes, nOut, nPc,
    \* PrivateKey, its sign and S256Point.verify (encryption.py)
    secret, point, zHash, sigOut, verdict, ecLast

fieldVars  == <<fe, feErr, feLast>>
pointVars  == <<pt, ptErr, ptLast>>
varintVars == <<vIn, vBytes, vOut, vPc>>
codecVars  == <<stream, script, parsed, serialized, codecPc>>
evalVars   == <<commands, stack, z, result, lastOp>>
numVars    == <<nIn, nBytes, nOut, nPc>>
ecdsaVars  == <<secret, point, zHash, sigOut, verdict, ecLast>>
vars == <<fieldVars, pointVars, varintVars, codecVars, evalVars, numVars, ecdsaVars>>

\* ------------------------------------------------------------------------
\* Bounds of the model
\* ------------------------------------------------------------------------
\* Exponents FieldElement.__pow__ is tried with: -MaxExp .. MaxExp
MaxExp == 3
\* Coefficients Point.__rmul__ is tried with: 0 .. MaxCoef
MaxCoef == 5

\* ------------------------------------------------------------------------
\* Python integer helpers
\* ------------------------------------------------------------------------
Abs(n) == IF n < 0 THEN -n ELSE n

Min(a, b) == IF a < b THEN a ELSE b

\* F(e) with e evaluated once, as a local variable of the code is
Bind(e, F(_)) == CHOOSE r \in {F(v) : v \in {e}} : TRUE

\* pow(base, e, m) of Python for e >= 0: square and multiply
RECURSIVE ModPowNat(_, _, _)
ModPowNat(base, e, m) ==
    IF e = 0 THEN 1 % m
    ELSE Bind(ModPowNat(base, e \div 2, m),
              LAMBDA h : IF e % 2 = 1 THEN (((h * h) % m) * (base % m)) % m
                         ELSE (h * h) % m)

\* Python >= 3.8: a negative exponent takes the modular inverse first and
\* raises ValueError when the base is not invertible.
Invertible(num, m) == \E i \in 0..(m - 1) : (i * num) % m = 1 % m

ModInverse(num, m) == CHOOSE i \in 0..(m - 1) : (i * num) % m = 1 % m

ModPow(base, e, m) ==
    IF e >= 0 THEN ModPowNat(base, e, m)
    ELSE ModPowNat(ModInverse(base, m), -e, m)

\* ------------------------------------------------------------------------
\* encoding_tools.py
\* ------------------------------------------------------------------------
\* s.read(n) of a byte stream at offset pos: the bytes that are left, at
\* most n of them, and no exception when fewer than n are left
Read(s, pos, n) == SubSeq(s, pos + 1, Min(pos + n, Len(s)))

\* the offset after s.read(n)
Advance(s, pos, n) == Min(pos + n, Len(s))

\* int.from_bytes(b, 'little')
RECURSIVE little_endian_to_int(_)
little_endian_to_int(b) ==
    IF b = <<>> THEN 0 ELSE b[1] + 256 * little_endian_to_int(Tail(b))

\* n.to_bytes(length, 'little'), for an n that fits
RECURSIVE int_to_little_endian(_, _)
int_to_little_endian(n, length) ==
    IF length = 0 THEN <<>>
    ELSE <<n % 256>> \o int_to_little_endian(n \div 256, length - 1)

\* i < 2**bits.  The integers of the model are below 2**31, so every one of
\* them is below 2**32 and 2**64.
Below2Pow(i, bits) == bits >= 31 \/ i < 2 ^ bits

\* read_varint(s) with the stream at offset pos: the value and the new
\* offset; s.read(1)[0] raises IndexError at the end of the stream
read_varint(s, pos) ==
    IF pos >= Len(s) THEN [exc |-> "IndexError", val |-> 0, pos |-> pos]
    ELSE IF s[pos + 1] = 253
    THEN [exc |-> "none", val |-> little_endian_to_int(Read(s, pos + 1, 2)),
          pos |-> Advance(s, pos + 1, 2)]
    ELSE IF s[pos + 1] = 254
    THEN [exc |-> "none", val |-> little_endian_to_int(Read(s, pos + 1, 4)),
          pos |-> Advance(s, pos + 1, 4)]
    ELSE IF s[pos + 1] = 255
    THEN [exc |-> "none", val |-> little_endian_to_int(Read(s, pos + 1, 8)),
          pos |-> Advance(s, pos + 1, 8)]
    ELSE [exc |-> "none", val |-> s[pos + 1], pos |-> pos + 1]

\* encode_varint(i)
encode_varint(i) ==
    IF Below2Pow(i, 8) THEN [exc |-> "none", bytes |-> <<i>>]
    ELSE IF Below2Pow(i, 8 * 2)
    THEN [exc |-> "none", bytes |-> <<253>> \o int_to_little_endian(i, 2)]
    ELSE IF Below2Pow(i, 8 * 4)
    THEN [exc |-> "none", bytes |-> <<254>> \o int_to_little_endian(i, 4)]
    ELSE IF Below2Pow(i, 8 * 8)
    THEN [exc |-> "none", bytes |-> <<255>> \o int_to_little_endian(i, 8)]
    ELSE [exc |-> "ValueError", bytes |-> <<>>]

\* ------------------------------------------------------------------------
\* algebra.py: FieldElement
\* ------------------------------------------------------------------------
\* Python's None, where a FieldElement is expected
None == [num |-> -1, prime |-> -1, exc |-> "None"]

Raised(e) == [num |-> -1, prime |-> -1, exc |-> e]

\* A bug FieldElement.__init__ could have: an off-by-one range check
FieldElement_OffByOne(num, prime) ==
    IF num > prime \/ num < 0 THEN Raised("ValueError")
    ELSE [num |-> num, prime |-> prime, exc |-> "none"]

\* FieldElement.__init__: ValueError (the spec's OutOfRange) outside 0..prime-1
FieldElement(num, prime) ==
    IF num >= prime \/ num < 0 THEN Raised("ValueError")
    ELSE [num |-> num, prime |-> prime, exc |-> "none"]

IsElement(x) == x.exc = "none"

\* FieldElement.__eq__ / __ne__ (None is equal to no element)
FieldEq(x, y) == x.exc = "none" /\ y.exc = "none" /\ x.num = y.num /\ x.prime = y.prime

\* The exception an operation on x and y ends in when one of them is no
\* FieldElement but an exception that was raised, or None
Exc(x, y) ==
    IF x.exc # "none" THEN Raised(IF x.exc = "None" THEN "TypeError" ELSE x.exc)
    ELSE Raised(IF y.exc = "None" THEN "TypeError" ELSE y.exc)

FieldAdd(x, y) ==
    IF x.exc # "none" \/ y.exc # "none" THEN Exc(x, y)
    ELSE IF x.prime # y.prime THEN Raised("TypeError")
    ELSE FieldElement((x.num + y.num) % x.prime, x.prime)

FieldSub(x, y) ==
    IF x.exc # "none" \/ y.exc # "none" THEN Exc(x, y)
    ELSE IF x.prime # y.prime THEN Raised("TypeError")
    ELSE FieldElement((x.num - y.num) % x.prime, x.prime)

FieldPow(x, power) ==
    IF x.exc # "none" THEN Exc(x, x)
    ELSE IF power < 0 /\ ~Invertible(x.num, x.prime) THEN Raised("ValueError")
    ELSE FieldElement(ModPow(x.num, power, x.prime), x.prime)

FieldMul(x, y) ==
    IF x.exc # "none" \/ y.exc # "none" THEN Exc(x, y)
    ELSE IF x.prime # y.prime THEN Raised("TypeError")
    ELSE FieldElement((x.num * y.num) % x.prime, x.prime)

FieldDiv(x, y) ==
    IF x.exc # "none" \/ y.exc # "none" THEN Exc(x, y)
    ELSE IF x.prime # y.prime THEN Raised("TypeError")
    ELSE FieldMul(x, FieldPow(y, x.prime - 2))

\* ------------------------------------------------------------------------
\* algebra.py: Point
\* ------------------------------------------------------------------------
\* An exception raised while a Point was being built or combined
PointRaised(e) == [x |-> None, y |-> None, a |-> None, b |-> None, exc |-> e]

\* x == y on coordinates: FieldElement.__eq__, and None == None
CoordEq(u, v) == (u = None /\ v = None) \/ FieldEq(u, v)

\* A bug Point.__init__ could have: the curve equation is not checked
PointInit_NoCheck(x, y, a, b) == [x |-> x, y |-> y, a |-> a, b |-> b, exc |-> "none"]

\* Point.__init__: (None, None) is the point at infinity; any other point
\* must satisfy y**2 == x**3 + a*x + b or ValueError (PointNotOnCurve)
PointInit(x, y, a, b) ==
    IF x = None /\ y = None
    THEN [x |-> x, y |-> y, a |-> a, b |-> b, exc |-> "none"]
    ELSE LET y2  == FieldPow(y, 2)
             rhs == FieldAdd(FieldAdd(FieldPow(x, 3), FieldMul(a, x)), b)
         IN IF y2.exc # "none" THEN PointRaised(y2.exc)
            ELSE IF rhs.exc # "none" THEN PointRaised(rhs.exc)
            ELSE IF ~FieldEq(y2, rhs) THEN PointRaised("ValueError")
            ELSE [x |-> x, y |-> y, a |-> a, b |-> b, exc |-> "none"]

Infinity(a, b) == PointInit(None, None, a, b)

\* Point.__eq__
PointEq(p, q) ==
    /\ CoordEq(p.x, q.x) /\ CoordEq(p.y, q.y)
    /\ CoordEq(p.a, q.a) /\ CoordEq(p.b, q.b)

\* x3, y3 and the new point of both branches of Point.__add__, which differ
\* in slope and in what is subtracted from slope**2
PointOnLine(self, slope, x3) ==
    PointInit(x3, FieldSub(FieldMul(slope, FieldSub(self.x, x3)), self.y), self.a, self.b)

\* the doubling branch of Point.__add__
PointDouble(self) ==
    Bind(FieldDiv(FieldAdd(FieldMul(FieldElement(3, self.x.prime), FieldPow(self.x, 2)), self.a),
                  FieldMul(FieldElement(2, self.y.prime), self.y)),
         LAMBDA slope :
             Bind(FieldSub(FieldPow(slope, 2), FieldMul(FieldElement(2, self.x.prime), self.x)),
                  LAMBDA x3 : PointOnLine(self, slope, x3)))

\* the chord branch of Point.__add__
PointChord(self, other) ==
    Bind(FieldDiv(FieldSub(other.y, self.y), FieldSub(other.x, self.x)),
         LAMBDA slope :
             Bind(FieldSub(FieldSub(FieldPow(slope, 2), self.x), other.x),
                  LAMBDA x3 : PointOnLine(self, slope, x3)))

\* A bug Point.__add__ could have: an identity on the left is returned
\* instead of the other point
PointAdd_LeftIdentity(self, other) ==
    IF self.exc # "none" THEN self
    ELSE IF other.exc # "none" THEN other
    ELSE IF ~CoordEq(self.a, other.a) \/ ~CoordEq(self.b, other.b)
    THEN PointRaised("TypeError")
    ELSE IF self.x = None THEN self
    ELSE IF other.x = None THEN self
    ELSE IF FieldEq(self.x, other.x) /\ ~FieldEq(self.y, other.y)
    THEN PointInit(None, None, self.a, self.b)
    ELSE IF PointEq(self, other) /\ FieldEq(self.y, FieldElement(0, self.y.prime))
    THEN PointInit(None, None, self.a, self.b)
    ELSE IF PointEq(self, other) THEN PointDouble(self)
    ELSE PointChord(self, other)

\* Point.__add__
PointAdd(self, other) ==
    IF self.exc # "none" THEN self
    ELSE IF other.exc # "none" THEN other
    ELSE IF ~CoordEq(self.a, other.a) \/ ~CoordEq(self.b, other.b)
    THEN PointRaised("TypeError")
    ELSE IF self.x = None THEN other
    ELSE IF other.x = None THEN self
    ELSE IF FieldEq(self.x, other.x) /\ ~FieldEq(self.y, other.y)
    THEN PointInit(None, None, self.a, self.b)
    ELSE IF PointEq(self, other) /\ FieldEq(self.y, FieldElement(0, self.y.prime))
    THEN PointInit(None, None, self.a, self.b)
    ELSE IF PointEq(self, other) THEN PointDouble(self)
    ELSE PointChord(self, other)

\* A bug Point.__rmul__ could have: current is never doubled
RECURSIVE RMulLoop_NoDouble(_, _, _)
RMulLoop_NoDouble(coef, current, res) ==
    IF res.exc # "none" THEN res
    ELSE IF current.exc # "none" THEN current
    ELSE IF coef = 0 THEN res
    ELSE Bind(IF coef % 2 = 1 THEN PointAdd(res, current) ELSE res,
              LAMBDA res1 : RMulLoop_NoDouble(coef \div 2, current, res1))

\* the while loop of Point.__rmul__ (coef >= 0)
RECURSIVE RMulLoop(_, _, _)
RMulLoop(coef, current, res) ==
    IF res.exc # "none" THEN res
    ELSE IF current.exc # "none" THEN current
    ELSE IF coef = 0 THEN res
    ELSE Bind(IF coef % 2 = 1 THEN PointAdd(res, current) ELSE res,
              LAMBDA res1 :
                  Bind(PointAdd(current, current),
                       LAMBDA cur1 : RMulLoop(coef \div 2, cur1, res1)))

\* Point.__rmul__
PointRMul(coefficient, self) ==
    RMulLoop(coefficient, self, PointInit(None, None, self.a, self.b))

\* ------------------------------------------------------------------------
\* encryption.py: the secp256k1 field, point and signature (scaled down)
\* ------------------------------------------------------------------------
\* constants.py: the field prime, here the smallest P = 3 (mod 4) for which
\* y^2 = x^3 + 7 has prime order
P == 43
\* constants.py: the order of the group
N == 31
\* constants.py: the curve y^2 = x^3 + A*x + B
A == 0
B == 7
\* The bytes of a coordinate in SEC and DER form (32 for secp256k1)
CoordLen == 1

S256Field(num) == FieldElement(num, P)

\* S256Point.__init__
S256Point(x, y) == PointInit(x, y, S256Field(A), S256Field(B))

\* G: a generator of the group
G == S256Point(S256Field(2), S256Field(12))

\* The integers of the model end below 2^31: an integer of Saturated or
\* more is held as Saturated.  Such an integer is only ever compared with
\* P, which is smaller.
Saturated == 2 ^ 22

RECURSIVE BigEndianFold(_, _)
BigEndianFold(acc, b) ==
    IF b = <<>> THEN acc
    ELSE BigEndianFold(Min(acc * 256 + b[1], Saturated), Tail(b))

\* int.from_bytes(b, 'big')
big_endian_to_int(b) == BigEndianFold(0, b)

\* b[lo:hi] of Python for 0 <= lo <= hi
Slice(b, lo, hi) == SubSeq(b, lo + 1, Min(hi, Len(b)))

\* S256Field.sqrt
S256FieldSqrt(x) == FieldPow(x, (P + 1) \div 4)

\* the compressed branch of S256Field.parse
ParseCompressed(sec_bin) ==
    LET is_even == sec_bin[1] = 2
        x       == S256Field(big_endian_to_int(Slice(sec_bin, 1, Len(sec_bin))))
        y_prime == S256FieldSqrt(FieldAdd(FieldPow(x, 3), S256Field(B)))
        other_y == S256Field(P - y_prime.num)
        even_y  == IF y_prime.num % 2 = 0 THEN y_prime ELSE other_y
        odd_y   == IF y_prime.num % 2 = 0 THEN other_y ELSE y_prime
    IN IF x.exc # "none" THEN PointRaised(x.exc)
       ELSE IF other_y.exc # "none" THEN PointRaised(other_y.exc)
       ELSE IF is_even THEN S256Point(x, even_y)
       ELSE S256Point(x, odd_y)

\* S256Field.parse: the point of a SEC serialization, or the exception
S256FieldParse(sec_bin) ==
    IF sec_bin = <<>> THEN PointRaised("IndexError")
    ELSE IF sec_bin[1] = 4
    THEN LET x == S256Field(big_endian_to_int(Slice(sec_bin, 1, 1 + CoordLen)))
             y == S256Field(big_endian_to_int(Slice(sec_bin, 1 + CoordLen, 1 + 2 * CoordLen)))
         IN IF x.exc # "none" THEN PointRaised(x.exc)
            ELSE IF y.exc # "none" THEN PointRaised(y.exc)
            ELSE S256Point(x, y)
    ELSE ParseCompressed(sec_bin)

\* S256Point.__rmul__
S256RMul(coefficient, self) == PointRMul(coefficient % N, self)

\* Signature.__init__
Signature(r, s) == [r |-> r, s |-> s, exc |-> "none"]

\* Signature.parse is called by op_checksig and defined nowhere in the
\* source: the DER decoder the specification asks for.  0x30, the length,
\* then two integers, each 0x02, its length and its big-endian bytes.
SignatureParse(der) ==
    IF Len(der) < 4 \/ der[1] # 48 \/ der[2] # Len(der) - 2 \/ der[3] # 2
    THEN [r |-> 0, s |-> 0, exc |-> "ValueError"]
    ELSE LET rlen == der[4]
         IN IF Len(der) < 6 + rlen \/ der[5 + rlen] # 2 \/ der[6 + rlen] # Len(der) - 6 - rlen
            THEN [r |-> 0, s |-> 0, exc |-> "ValueError"]
            ELSE Signature(big_endian_to_int(SubSeq(der, 5, 4 + rlen)),
                           big_endian_to_int(SubSeq(der, 7 + rlen, Len(der))))

\* total.x.num == sig.r, where total may be the point at infinity
VerifyTotal(total, sig) ==
    IF total.exc # "none" THEN total.exc
    ELSE IF total.x = None THEN "AttributeError"
    ELSE IF total.x.num = sig.r THEN "True"
    ELSE "False"

\* S256Point.verify: "True", "False" or the exception raised
S256Verify(self, zz, sig) ==
    Bind(ModPowNat(sig.s, N - 2, N),
         LAMBDA s_inv :
             Bind(S256RMul((zz * s_inv) % N, G),
                  LAMBDA uG :
                      Bind(S256RMul((sig.r * s_inv) % N, self),
                           LAMBDA vP : VerifyTotal(PointAdd(uG, vP), sig))))

\* hash256 and hash160 are computed by hashlib: a digest of one byte that
\* depends on every byte of the content and on its length
RECURSIVE SumBytes(_)
SumBytes(b) == IF b = <<>> THEN 0 ELSE b[1] + SumBytes(Tail(b))

hash256(content) == <<(SumBytes(content) * 13 + Len(content) + 25) % 256>>

hash160(content) == <<(SumBytes(content) * 7 + Len(content) + 160) % 256>>

\* ------------------------------------------------------------------------
\* ops.py
\* ------------------------------------------------------------------------
\* the bytes of abs_num, least significant first
RECURSIVE Magnitude(_)
Magnitude(abs_num) ==
    IF abs_num = 0 THEN <<>> ELSE <<abs_num % 256>> \o Magnitude(abs_num \div 256)

\* A bug encode_num could have: the sign bit is set in the last byte of the
\* magnitude even when that byte has its high bit in use
EncodeSign_NoPad(bytes, negative) ==
    IF negative /\ bytes[Len(bytes)] < 128 THEN [bytes EXCEPT ![Len(bytes)] = @ + 128]
    ELSE bytes

\* the sign handling of encode_num on the bytes of the magnitude
EncodeSign(bytes, negative) ==
    IF bytes[Len(bytes)] >= 128
    THEN Append(bytes, IF negative THEN 128 ELSE 0)
    ELSE IF negative THEN [bytes EXCEPT ![Len(bytes)] = @ + 128]
    ELSE bytes

encode_num(num) ==
    IF num = 0 THEN <<>> ELSE EncodeSign(Magnitude(Abs(num)), num < 0)

\* element[::-1]
RECURSIVE Reversed(_)
Reversed(b) == IF b = <<>> THEN <<>> ELSE Append(Reversed(Tail(b)), b[1])

\* the for loop of decode_num: result <<= 8; result += c
RECURSIVE DecodeFold(_, _)
DecodeFold(acc, bytes) ==
    IF bytes = <<>> THEN acc ELSE DecodeFold(acc * 256 + bytes[1], Tail(bytes))

decode_num(element) ==
    IF element = <<>> THEN 0
    ELSE LET big_endian == Reversed(element)
             negative   == big_endian[1] >= 128
             first      == IF negative THEN big_endian[1] - 128 ELSE big_endian[1]
             magnitude  == DecodeFold(first, Tail(big_endian))
         IN IF negative THEN -magnitude ELSE magnitude

\* An opcode function returns True or False, or raises, and leaves the
\* stack it was given changed
Returned(ret, st) == [ret |-> ret, stack |-> st]

op_0(st) == Returned("True", Append(st, encode_num(0)))

op_dup(st) ==
    IF Len(st) < 1 THEN Returned("False", st)
    ELSE Returned("True", Append(st, st[Len(st)]))

op_hash256(st) ==
    IF Len(st) < 1 THEN Returned("False", st)
    ELSE Returned("True", Append(SubSeq(st, 1, Len(st) - 1), hash256(st[Len(st)])))

op_hash160(st) ==
    IF Len(st) < 1 THEN Returned("False", st)
    ELSE Returned("True", Append(SubSeq(st, 1, Len(st) - 1), hash160(st[Len(st)])))

\* op_checksig after its two stack.pop(0): parse, verify, push
CheckSig(signature, pubkey, rest, zz) ==
    Bind(S256FieldParse(pubkey),
         LAMBDA sec :
             IF sec.exc # "none" THEN Returned(sec.exc, rest)
             ELSE Bind(SignatureParse(Slice(signature, 0, Len(signature) - 1)),
                       LAMBDA sig :
                           IF sig.exc # "none" THEN Returned(sig.exc, rest)
                           ELSE Bind(S256Verify(sec, zz, sig),
                                     LAMBDA is_verified :
                                         IF is_verified = "True"
                                         THEN Returned("True", Append(rest, encode_num(1)))
                                         ELSE IF is_verified = "False"
                                         THEN Returned("False", op_0(rest).stack)
                                         ELSE Returned(is_verified, rest))))

\* A bug op_checksig could have: a guard that lets a stack of one element in
op_checksig_Guard1(st, zz) ==
    IF Len(st) < 1 THEN Returned("False", st)
    ELSE IF Len(st) < 2 THEN Returned("IndexError", Tail(st))
    ELSE CheckSig(st[1], st[2], SubSeq(st, 3, Len(st)), zz)

\* op_checksig: stack.pop(0) takes the signature, and then the public key,
\* from the front of the list, which is the bottom of the stack
op_checksig(st, zz) ==
    IF Len(st) < 2 THEN Returned("False", st)
    ELSE CheckSig(st[1], st[2], SubSeq(st, 3, Len(st)), zz)

\* the keys of OP_CODE_FUNCTIONS
OP_CODE_FUNCTIONS == {118, 169, 170, 172}

\* OP_CODE_FUNCTIONS[cmd] called the way Script.evaluate calls it.  The
\* opcodes evaluate passes the commands (99, 100) or the altstack (107, 108)
\* to are no keys of the table.
Operation(cmd, st, zz) ==
    IF cmd \in {172, 173, 174, 175} THEN op_checksig(st, zz)
    ELSE IF cmd = 118 THEN op_dup(st)
    ELSE IF cmd = 169 THEN op_hash160(st)
    ELSE op_hash256(st)

\* ------------------------------------------------------------------------
\* Values of the variables a specification does not use
\* ------------------------------------------------------------------------
IdleField  == fe = None /\ feErr = "idle" /\ feLast = [op |-> "idle", num |-> 0, prime |-> 0, self |-> 0]

IdlePoint  ==
    /\ pt = PointRaised("idle") /\ ptErr = "idle"
    /\ ptLast = [op |-> "idle", x |-> 0, y |-> 0,
                 self |-> PointRaised("idle"), other |-> PointRaised("idle")]

IdleVarint ==
    /\ vIn = -1 /\ vBytes = [exc |-> "idle", bytes |-> <<>>]
    /\ vOut = [exc |-> "idle", val |-> 0, pos |-> 0] /\ vPc = "idle"

IdleCodec  ==
    /\ stream = <<>> /\ script = <<>> /\ serialized = [exc |-> "idle", bytes |-> <<>>]
    /\ parsed = [commands |-> <<>>, length |-> 0, count |-> 0, start |-> 0, pos |-> 0]
    /\ codecPc = "idle"

IdleEval   ==
    /\ commands = <<>> /\ stack = <<>> /\ z = 0 /\ result = "idle"
    /\ lastOp = [kind |-> "idle", cmd |-> 0, pre |-> <<>>, post |-> <<>>, ret |-> "idle"]

IdleNum    == nIn = 0 /\ nBytes = <<>> /\ nOut = 0 /\ nPc = "idle"

IdleEcdsa  ==
    /\ secret = 0 /\ point = PointRaised("idle") /\ zHash = 0
    /\ sigOut = [r |-> 0, s |-> 0, exc |-> "idle"] /\ verdict = "idle"
    /\ ecLast = [op |-> "idle", k |-> 0]

\* ------------------------------------------------------------------------
\* FieldElement: construction, then any sequence of operations
\* ------------------------------------------------------------------------
\* The moduli tried: FieldElement does not check that prime is a prime
Moduli == {2, 7, 12, 223}

\* The values the other operand of an operation is built from
OperandNums == {0, 1, 2, 5, 100, 222}

Operands ==
    UNION {{FieldElement(n, m) : n \in {k \in OperandNums : k < m}} : m \in Moduli}

FieldInit ==
    /\ \E prime \in Moduli : \E num \in (-2)..(prime + 2) :
          /\ fe = FieldElement(num, prime)
          /\ feErr = FieldElement(num, prime).exc
          /\ feLast = [op |-> "init", num |-> num, prime |-> prime, self |-> prime]
    /\ IdlePoint /\ IdleVarint /\ IdleCodec /\ IdleEval /\ IdleNum /\ IdleEcdsa

\* the outcome r of an operation on fe: a new element, or an exception
FieldOutcome(op, r, num, prime) ==
    /\ fe' = IF r.exc = "none" THEN r ELSE fe
    /\ feErr' = r.exc
    /\ feLast' = [op |-> op, num |-> num, prime |-> prime, self |-> fe.prime]
    /\ UNCHANGED <<pointVars, varintVars, codecVars, evalVars, numVars, ecdsaVars>>

FieldAddStep ==
    /\ IsElement(fe)
    /\ \E o \in Operands : FieldOutcome("add", FieldAdd(fe, o), o.num, o.prime)

FieldSubStep ==
    /\ IsElement(fe)
    /\ \E o \in Operands : FieldOutcome("sub", FieldSub(fe, o), o.num, o.prime)

FieldMulStep ==
    /\ IsElement(fe)
    /\ \E o \in Operands : FieldOutcome("mul", FieldMul(fe, o), o.num, o.prime)

FieldPowStep ==
    /\ IsElement(fe)
    /\ \E power \in (-MaxExp)..MaxExp : FieldOutcome("pow", FieldPow(fe, power), power, fe.prime)

FieldDivStep ==
    /\ IsElement(fe)
    /\ \E o \in Operands : FieldOutcome("div", FieldDiv(fe, o), o.num, o.prime)

FieldNext == FieldAddStep \/ FieldSubStep \/ FieldMulStep \/ FieldPowStep \/ FieldDivStep

SpecField == FieldInit /\ [][FieldNext]_vars

\* C9: every FieldElement that exists has 0 <= value < modulus: a
\* construction outside that range fails with ValueError (OutOfRange) and
\* builds nothing, and whatever add, sub, mul, pow and div return is an
\* element of the modulus of the receiver with its value in range.
C9_FieldElementInRange ==
    /\ IsElement(fe) => (0 <= fe.num /\ fe.num < fe.prime)
    /\ (feLast.op = "init" /\ ~(0 <= feLast.num /\ feLast.num < feLast.prime))
          => (~IsElement(fe) /\ feErr = "ValueError")
    /\ (feLast.op \in {"add", "sub", "mul", "pow", "div"} /\ feErr = "none")
          => (IsElement(fe) /\ fe.prime = feLast.self)

\* a division in F_223 has returned an element other than 0 and 1
C9_Witness ==
    /\ feLast.op = "div" /\ feErr = "none"
    /\ fe.prime = 223 /\ fe.num > 1

\* ------------------------------------------------------------------------
\* Point: construction, then any sequence of additions and multiplications
\* ------------------------------------------------------------------------
\* test_elliptic_curve_algebra.py: the curve y^2 = x^3 + 7 over F_223
Prime223 == 223

CurveA == FieldElement(0, Prime223)

CurveB == FieldElement(7, Prime223)

\* Coordinates a Point is constructed from: those of the points of
\* test_on_curve (valid and invalid), of their sum, and of a point with y == 0
CoordSamples == {0, 1, 6, 17, 42, 56, 99, 105, 119, 142, 170, 192, 193, 200}

\* valid_points of test_on_curve
ValidPoints ==
    {PointInit(FieldElement(c[1], Prime223), FieldElement(c[2], Prime223), CurveA, CurveB) :
        c \in {<<192, 105>>, <<17, 56>>, <<1, 193>>}}

\* The other operand of an addition: a point of the test, the identity, or
\* the identity of another curve
AddOperands ==
    ValidPoints \cup {Infinity(CurveA, CurveB), Infinity(CurveA, FieldElement(5, Prime223))}

\* y^2 == x^3 + a*x + b on integers
OnCurve(x, y, a, b, p) == (y * y) % p = (x * x * x + a * x + b) % p

NumOf(c) == IF c = None THEN -1 ELSE c.num

PointSpecInit ==
    /\ \E x \in CoordSamples, y \in CoordSamples :
          LET p == PointInit(FieldElement(x, Prime223), FieldElement(y, Prime223), CurveA, CurveB)
          IN /\ pt = p
             /\ ptErr = p.exc
             /\ ptLast = [op |-> "init", x |-> x, y |-> y,
                          self |-> PointRaised("init"), other |-> PointRaised("init")]
    /\ IdleField /\ IdleVarint /\ IdleCodec /\ IdleEval /\ IdleNum /\ IdleEcdsa

\* the outcome r of an operation on pt: a new point, or an exception
\* ptLast keeps the receiver and the other operand of the operation
PointOutcome(op, r, x, y, other) ==
    /\ pt' = IF r.exc = "none" THEN r ELSE pt
    /\ ptErr' = r.exc
    /\ ptLast' = [op |-> op, x |-> x, y |-> y, self |-> pt, other |-> other]
    /\ UNCHANGED <<fieldVars, varintVars, codecVars, evalVars, numVars, ecdsaVars>>

\* the point (x, -y) of an affine point p, and p itself at infinity
Negated(p) ==
    IF p.x = None THEN p
    ELSE PointInit(p.x, FieldElement((p.y.prime - p.y.num) % p.y.prime, p.y.prime), p.a, p.b)

\* pt + other, where other is also tried as pt itself and as -pt
PointAddStep ==
    /\ pt.exc = "none"
    /\ \E other \in AddOperands \cup {pt, Negated(pt)} :
          PointOutcome("add", PointAdd(pt, other), NumOf(other.x), NumOf(other.y), other)

\* coefficient * pt
PointRMulStep ==
    /\ pt.exc = "none"
    /\ \E coefficient \in 0..MaxCoef :
          PointOutcome("rmul", PointRMul(coefficient, pt), coefficient, 0, pt)

PointNext == PointAddStep \/ PointRMulStep

SpecPoint == PointSpecInit /\ [][PointNext]_vars

\* C10: every Point that exists is the point at infinity or satisfies
\* y^2 = x^3 + a*x + b: constructing a point off the curve fails with
\* ValueError (PointNotOnCurve), (200,119) and (42,99) included, and what
\* add and rmul return from points of the curve is again such a point.
C10_PointOnCurve ==
    /\ pt.exc = "none" =>
          \/ pt.x = None /\ pt.y = None
          \/ /\ IsElement(pt.x) /\ IsElement(pt.y)
             /\ OnCurve(pt.x.num, pt.y.num, pt.a.num, pt.b.num, Prime223)
    /\ (ptLast.op = "init" /\ ~OnCurve(ptLast.x, ptLast.y, 0, 7, Prime223))
          => (pt.exc # "none" /\ ptErr = "ValueError")
    /\ (ptLast.op \in {"add", "rmul"} /\ ptErr = "none")
          => (pt.exc = "none" /\ pt.a = CurveA /\ pt.b = CurveB)

\* a multiplication has returned an affine point of the curve
C10_Witness ==
    /\ ptLast.op = "rmul" /\ ptLast.x = MaxCoef /\ ptErr = "none"
    /\ pt.x # None /\ OnCurve(pt.x.num, pt.y.num, 0, 7, Prime223)

\* the point (x, y) of the curve of the test
TestPoint(x, y) == PointInit(FieldElement(x, Prime223), FieldElement(y, Prime223), CurveA, CurveB)

\* C11: point addition is commutative and Infinity is its identity: for
\* points P and Q of the same curve (Infinity, P == Q, P == -Q and y == 0
\* included) P + Q returns a point equal to Q + P, P + Infinity and
\* Infinity + P equal P, and (192,105) + (17,56) = (170,142) over F_223.
C11_AddCommutes ==
    (/\ ptLast.op = "add"
     /\ CoordEq(ptLast.self.a, ptLast.other.a) /\ CoordEq(ptLast.self.b, ptLast.other.b))
    => /\ ptErr = "none"
       /\ PointEq(pt, PointAdd(ptLast.other, ptLast.self))
       /\ ptLast.other.x = None => PointEq(pt, ptLast.self)
       /\ ptLast.self.x = None => PointEq(pt, ptLast.other)
       /\ (ptLast.self = TestPoint(192, 105) /\ ptLast.other = TestPoint(17, 56))
             => pt = TestPoint(170, 142)

\* (192,105) + (17,56) has been computed
C11_Witness ==
    /\ ptLast.op = "add" /\ ptErr = "none"
    /\ ptLast.self = TestPoint(192, 105) /\ ptLast.other = TestPoint(17, 56)
    /\ pt.x # None

\* a point with y == 0 has been added to itself
C11_WitnessDoubleZeroY ==
    /\ ptLast.op = "add" /\ ptErr = "none"
    /\ ptLast.self.x # None /\ ptLast.self.y.num = 0 /\ ptLast.other = ptLast.self

\* ------------------------------------------------------------------------
\* Scalar multiplication: Point.__rmul__ on the curve of the test and
\* S256Point.__rmul__ on the secp256k1 curve
\* ------------------------------------------------------------------------
\* Coefficients an S256Point is multiplied with: 0 .. MaxScalar, which goes
\* beyond the order N
MaxScalar == 40
\* Coefficients a Point is multiplied with, and up to which a product is
\* compared with the repeated addition: 0 .. MaxRepeat
MaxRepeat == 12

\* an S256Point, whose __rmul__ overrides that of Point
IsS256(p) == p.a = S256Field(A) /\ p.b = S256Field(B)

ScalarInit ==
    /\ \E p \in ValidPoints \cup {TestPoint(6, 0), Infinity(CurveA, CurveB), G} :
          /\ pt = p
          /\ ptErr = p.exc
          /\ ptLast = [op |-> "init", x |-> NumOf(p.x), y |-> NumOf(p.y),
                       self |-> PointRaised("init"), other |-> PointRaised("init")]
    /\ IdleField /\ IdleVarint /\ IdleCodec /\ IdleEval /\ IdleNum /\ IdleEcdsa

\* coefficient * pt for a Point
GenericRMulStep ==
    /\ pt.exc = "none" /\ ~IsS256(pt)
    /\ \E coefficient \in 0..MaxRepeat :
          PointOutcome("rmul", PointRMul(coefficient, pt), coefficient, 0, pt)

\* coefficient * pt for an S256Point
S256RMulStep ==
    /\ pt.exc = "none" /\ IsS256(pt)
    /\ \E coefficient \in 0..MaxScalar :
          PointOutcome("s256rmul", S256RMul(coefficient, pt), coefficient, 0, pt)

ScalarNext == GenericRMulStep \/ S256RMulStep

SpecScalar == ScalarInit /\ [][ScalarNext]_vars

\* Infinity with p added to it k times
RECURSIVE RepeatAdd(_, _)
RepeatAdd(k, p) ==
    IF k = 0 THEN Infinity(p.a, p.b)
    ELSE Bind(RepeatAdd(k - 1, p), LAMBDA acc : PointAdd(acc, p))

\* C12: for a point P and k >= 0 the double-and-add loop of k * P ends
\* and returns Infinity with P added to it k times, so 0 * P is Infinity
\* and 1 * P is P; on the secp256k1 curve, where k is first reduced mod N,
\* the result is the point the loop returns for the unreduced k.
C12_ScalarMultiply ==
    /\ ptLast.op \in {"rmul", "s256rmul"} =>
          /\ ptErr = "none"
          /\ ptLast.x <= MaxRepeat => PointEq(pt, RepeatAdd(ptLast.x, ptLast.self))
          /\ ptLast.x = 0 => (pt.x = None /\ pt.y = None)
          /\ ptLast.x = 1 => PointEq(pt, ptLast.self)
    /\ ptLast.op = "s256rmul" => PointEq(pt, PointRMul(ptLast.x, ptLast.self))

\* a coefficient above N has been multiplied with a point of the
\* secp256k1 group other than G, with an affine result
C12_Witness ==
    /\ ptLast.op = "s256rmul" /\ ptErr = "none"
    /\ ptLast.x > N /\ ptLast.self # G /\ ptLast.self.x # None /\ pt.x # None

\* a coefficient with several bits set has been multiplied with a point of
\* the curve over F_223
C12_WitnessGeneric ==
    /\ ptLast.op = "rmul" /\ ptErr = "none"
    /\ ptLast.x = 11 /\ ptLast.self = TestPoint(192, 105) /\ pt.x # None

\* ------------------------------------------------------------------------
\* The varint codec: encode_varint(x), then read_varint of those bytes
\* ------------------------------------------------------------------------
\* Every value up to MaxSmallVarint is tried, and the boundary values the
\* integers of the model can hold
MaxSmallVarint == 300

VarintSamples == 0..MaxSmallVarint \cup {65535, 65536, 16777215, 16777216, 2147483647}

VarintInit ==
    /\ vIn \in VarintSamples
    /\ vBytes = [exc |-> "pending", bytes |-> <<>>]
    /\ vOut = [exc |-> "pending", val |-> 0, pos |-> 0]
    /\ vPc = "encode"
    /\ IdleField /\ IdlePoint /\ IdleCodec /\ IdleEval /\ IdleNum /\ IdleEcdsa

EncodeVarintStep ==
    /\ vPc = "encode"
    /\ vBytes' = encode_varint(vIn)
    /\ vPc' = IF encode_varint(vIn).exc = "none" THEN "read" ELSE "raised"
    /\ UNCHANGED <<vIn, vOut, fieldVars, pointVars, codecVars, evalVars, numVars, ecdsaVars>>

ReadVarintStep ==
    /\ vPc = "read"
    /\ vOut' = read_varint(vBytes.bytes, 0)
    /\ vPc' = "done"
    /\ UNCHANGED <<vIn, vBytes, fieldVars, pointVars, codecVars, evalVars, numVars, ecdsaVars>>

VarintNext == EncodeVarintStep \/ ReadVarintStep

SpecVarint == VarintInit /\ [][VarintNext]_vars

\* the length the varint of x has by the thresholds of the format
VarintLen(x) ==
    IF x < 253 THEN 1 ELSE IF Below2Pow(x, 16) THEN 3 ELSE IF Below2Pow(x, 32) THEN 5 ELSE 9

\* C8: encode_varint(x) succeeds, it has 1, 3, 5 or 9 bytes by the
\* thresholds, and read_varint of those bytes returns x and consumes all
\* of them.
C8_VarintRoundTrip ==
    /\ vPc # "raised"
    /\ vPc \in {"read", "done"} => Len(vBytes.bytes) = VarintLen(vIn)
    /\ vPc = "done" =>
          /\ vOut.exc = "none"
          /\ vOut.val = vIn
          /\ vOut.pos = Len(vBytes.bytes)

\* ------------------------------------------------------------------------
\* script.py: the commands of a Script, Script.parse and Script.serialize
\* ------------------------------------------------------------------------
\* A command is an int (an opcode) or a bytes object (an element)
Op(code) == [isOp |-> TRUE, code |-> code, data |-> <<>>]

Data(bytes) == [isOp |-> FALSE, code |-> 0, data |-> bytes]

\* one pass of the while loop of Script.parse, on a PUSHDATA marker whose
\* length field has n_bytes bytes
ParsePushData(n_bytes) ==
    LET data_length == little_endian_to_int(Read(stream, parsed.pos + 1, n_bytes))
        at          == Advance(stream, parsed.pos + 1, n_bytes)
    IN [parsed EXCEPT
          !.commands = Append(@, Data(Read(stream, at, data_length))),
          !.count = @ + 1 + data_length + n_bytes,
          !.pos = Advance(stream, at, data_length)]

\* Script.parse, to the loop: length = read_varint(s)
ParseStart ==
    /\ codecPc = "parse"
    /\ LET v == read_varint(stream, 0)
       IN IF v.exc # "none"
          THEN /\ codecPc' = v.exc
               /\ UNCHANGED parsed
          ELSE /\ codecPc' = "loop"
               /\ parsed' = [commands |-> <<>>, length |-> v.val, count |-> 0,
                             start |-> v.pos, pos |-> v.pos]
    /\ UNCHANGED <<stream, script, serialized, fieldVars, pointVars, varintVars, evalVars, numVars, ecdsaVars>>

\* Script.parse: one pass of the while loop
ParseCommand ==
    /\ codecPc = "loop"
    /\ parsed.count < parsed.length
    /\ IF parsed.pos >= Len(stream)
       THEN \* current = s.read(1) is empty: current[0] raises
            /\ codecPc' = "IndexError"
            /\ UNCHANGED parsed
       ELSE LET current_byte == stream[parsed.pos + 1]
            IN /\ codecPc' = "loop"
               /\ parsed' =
                    IF 1 <= current_byte /\ current_byte <= 75
                    THEN [parsed EXCEPT
                            !.commands = Append(@, Data(Read(stream, parsed.pos + 1, current_byte))),
                            !.count = @ + 1 + current_byte,
                            !.pos = Advance(stream, parsed.pos + 1, current_byte)]
                    ELSE IF current_byte = 76 THEN ParsePushData(1)
                    ELSE IF current_byte = 77 THEN ParsePushData(2)
                    ELSE IF current_byte = 78 THEN ParsePushData(4)
                    ELSE [parsed EXCEPT
                            !.commands = Append(@, Op(current_byte)),
                            !.count = @ + 1,
                            !.pos = @ + 1]
    /\ UNCHANGED <<stream, script, serialized, fieldVars, pointVars, varintVars, evalVars, numVars, ecdsaVars>>

\* Script.parse, after the loop: the check of count against length
ParseFinish ==
    /\ codecPc = "loop"
    /\ ~(parsed.count < parsed.length)
    /\ codecPc' = IF parsed.count # parsed.length THEN "SyntaxError" ELSE "returned"
    /\ UNCHANGED <<parsed, stream, script, serialized, fieldVars, pointVars, varintVars, evalVars, numVars, ecdsaVars>>

\* the bytes raw_serialize appends for one command (the element itself is
\* not appended), or the ValueError of an element it has no prefix for
SerializeCommand(command) ==
    IF command.isOp
    THEN [exc |-> "none", bytes |-> int_to_little_endian(command.code, 1)]
    ELSE LET length == Len(command.data)
         IN IF length < 75
            THEN [exc |-> "none", bytes |-> int_to_little_endian(length, 1)]
            ELSE IF 75 < length /\ length < 2 ^ 8
            THEN [exc |-> "none",
                  bytes |-> int_to_little_endian(76, 1) \o int_to_little_endian(length, 1)]
            ELSE IF 2 ^ 8 < length /\ length < 2 ^ 9
            THEN [exc |-> "none",
                  bytes |-> int_to_little_endian(77, 2) \o int_to_little_endian(length, 2)]
            ELSE IF 2 ^ 9 < length /\ length < 2 ^ 11
            THEN [exc |-> "none",
                  bytes |-> int_to_little_endian(77, 4) \o int_to_little_endian(length, 4)]
            ELSE [exc |-> "ValueError", bytes |-> <<>>]

\* Script.raw_serialize
RECURSIVE raw_serialize(_)
raw_serialize(cmds) ==
    IF cmds = <<>> THEN [exc |-> "none", bytes |-> <<>>]
    ELSE IF SerializeCommand(Head(cmds)).exc # "none" THEN SerializeCommand(Head(cmds))
    ELSE IF raw_serialize(Tail(cmds)).exc # "none" THEN raw_serialize(Tail(cmds))
    ELSE [exc |-> "none",
          bytes |-> SerializeCommand(Head(cmds)).bytes \o raw_serialize(Tail(cmds)).bytes]

\* Script.serialize
serialize(cmds) ==
    IF raw_serialize(cmds).exc # "none" THEN raw_serialize(cmds)
    ELSE IF encode_varint(Len(raw_serialize(cmds).bytes)).exc # "none"
    THEN encode_varint(Len(raw_serialize(cmds).bytes))
    ELSE [exc |-> "none",
          bytes |-> encode_varint(Len(raw_serialize(cmds).bytes)).bytes
                    \o raw_serialize(cmds).bytes]

\* script.serialize(), and the stream Script.parse is then given
SerializeStep ==
    /\ codecPc = "serialize"
    /\ serialized' = serialize(script)
    /\ IF serialize(script).exc # "none"
       THEN codecPc' = serialize(script).exc /\ UNCHANGED stream
       ELSE codecPc' = "parse" /\ stream' = serialize(script).bytes
    /\ UNCHANGED <<parsed, script, fieldVars, pointVars, varintVars, evalVars, numVars, ecdsaVars>>

\* ------------------------------------------------------------------------
\* Script.parse of any stream, and parse(serialize(script))
\* ------------------------------------------------------------------------
\* The longest stream parsed
MaxStream == 5
\* The most commands of a serialized script
MaxScript == 2

\* The bytes of a parsed stream: small lengths, the three PUSHDATA markers,
\* an opcode, and the marker of a 2-byte varint
StreamBytes == {0, 1, 2, 3, 76, 77, 78, 118, 253}

\* an element of n bytes
Element(n) == [i \in 1..n |-> 170]

\* The lengths of the elements of a serialized script
ElementLengths == {1, 2, 74, 75, 76, 255, 256, 257}

\* Opcodes that are not push markers
PlainOpcodes == {0, 118, 172}

ScriptCommands == {Op(c) : c \in PlainOpcodes} \cup {Data(Element(n)) : n \in ElementLengths}

SeqsUpTo(S, n) == UNION {[1..k -> S] : k \in 0..n}

CodecInit ==
    /\ parsed = [commands |-> <<>>, length |-> 0, count |-> 0, start |-> 0, pos |-> 0]
    /\ \/ /\ stream \in SeqsUpTo(StreamBytes, MaxStream)
          /\ script = <<>>
          /\ serialized = [exc |-> "unused", bytes |-> <<>>]
          /\ codecPc = "parse"
       \/ /\ stream = <<>>
          /\ script \in SeqsUpTo(ScriptCommands, MaxScript)
          /\ serialized = [exc |-> "pending", bytes |-> <<>>]
          /\ codecPc = "serialize"
    /\ IdleField /\ IdlePoint /\ IdleVarint /\ IdleEval /\ IdleNum /\ IdleEcdsa

CodecNext == SerializeStep \/ ParseStart \/ ParseCommand \/ ParseFinish

SpecCodec == CodecInit /\ [][CodecNext]_vars

\* C6: Script.parse never returns a script when the bytes its commands
\* consumed from the stream differ from the declared length.
C6_ParseConsumesLength ==
    codecPc = "returned" => parsed.pos - parsed.start = parsed.length

\* C7: parse(serialize(script)) == script: serialize succeeds, parse
\* returns, and the commands are those of the script.
C7_SerializeParseRoundTrip ==
    (serialized.exc # "unused" /\ codecPc \notin {"serialize", "parse", "loop"})
        => (codecPc = "returned" /\ parsed.commands = script)

\* ------------------------------------------------------------------------
\* Script.evaluate
\* ------------------------------------------------------------------------
\* The most commands of an evaluated script
MaxCmds == 4

\* The compressed SEC form of the public key 3*G = (35, 21)
SamplePubKey == <<3, 35>>

\* The DER form of the signature (r, s) = (7, 11), which that key made of
\* z = 1 with the nonce 2, and the sighash type byte
SampleSig == <<48, 6, 2, 1, 7, 2, 1, 11, 1>>

\* The elements a script pushes
EvalElements == {<<>>, SamplePubKey, SampleSig}

\* OP_0, OP_DUP, OP_HASH160, OP_HASH256, OP_CHECKSIG
EvalOpcodes == {0, 118, 169, 170, 172}

EvalCommands == {Op(c) : c \in EvalOpcodes} \cup {Data(e) : e \in EvalElements}

\* The signature hashes a script is evaluated with
EvalHashes == {1, 2}

EvalInit ==
    /\ commands \in SeqsUpTo(EvalCommands, MaxCmds)
    /\ stack = <<>>
    /\ z \in EvalHashes
    /\ result = "running"
    /\ lastOp = [kind |-> "none", cmd |-> 0, pre |-> <<>>, post |-> <<>>, ret |-> "none"]
    /\ IdleField /\ IdlePoint /\ IdleVarint /\ IdleCodec /\ IdleNum /\ IdleEcdsa

\* what one pass of the while loop does with the outcome r of an opcode: a
\* bug it could have is to go on after an operation that returned False
ExecOp_IgnoreFailure(cmd, r) ==
    /\ stack' = r.stack
    /\ result' = IF r.ret \in {"True", "False"} THEN "running" ELSE r.ret
    /\ lastOp' = [kind |-> "op", cmd |-> cmd, pre |-> stack, post |-> r.stack, ret |-> r.ret]

\* what one pass of the while loop does with the outcome r of an opcode:
\* return False when the operation did, go on when it returned True
ExecOp(cmd, r) ==
    /\ stack' = r.stack
    /\ result' = IF r.ret = "True" THEN "running" ELSE r.ret
    /\ lastOp' = [kind |-> "op", cmd |-> cmd, pre |-> stack, post |-> r.stack, ret |-> r.ret]

\* one pass of the while loop of Script.evaluate: cmd = commands.pop(0)
EvalStep ==
    /\ result = "running"
    /\ Len(commands) > 0
    /\ commands' = Tail(commands)
    /\ LET cmd == Head(commands)
       IN IF cmd.isOp
          THEN IF cmd.code \notin OP_CODE_FUNCTIONS
               THEN /\ result' = "KeyError"
                    /\ lastOp' = [kind |-> "op", cmd |-> cmd.code, pre |-> stack,
                                  post |-> stack, ret |-> "KeyError"]
                    /\ UNCHANGED stack
               ELSE ExecOp(cmd.code, Operation(cmd.code, stack, z))
          ELSE /\ stack' = Append(stack, cmd.data)
               /\ lastOp' = [kind |-> "push", cmd |-> 0, pre |-> stack,
                             post |-> Append(stack, cmd.data), ret |-> "none"]
               /\ UNCHANGED result
    /\ UNCHANGED <<z, fieldVars, pointVars, varintVars, codecVars, numVars, ecdsaVars>>

\* the value Script.evaluate returns after the loop
FinalCheck(st) ==
    IF Len(st) = 0 THEN "False"
    ELSE IF st[1] = <<>> THEN "False"
    ELSE "True"

\* Script.evaluate after the loop: the final check, with its stack.pop(0)
EvalFinish ==
    /\ result = "running"
    /\ Len(commands) = 0
    /\ result' = FinalCheck(stack)
    /\ stack' = IF Len(stack) = 0 THEN stack ELSE Tail(stack)
    /\ lastOp' = [kind |-> "final", cmd |-> 0, pre |-> stack,
                  post |-> IF Len(stack) = 0 THEN stack ELSE Tail(stack),
                  ret |-> FinalCheck(stack)]
    /\ UNCHANGED <<commands, z, fieldVars, pointVars, varintVars, codecVars, numVars, ecdsaVars>>

EvalNext == EvalStep \/ EvalFinish

SpecEval == EvalInit /\ [][EvalNext]_vars

\* C1: after the last command, evaluate returns True if and only if the
\* stack is not empty and its top element is not the empty byte string.
C1_ResultIsTopOfStack ==
    lastOp.kind = "final" =>
        (result = "True" <=>
            (lastOp.pre # <<>> /\ lastOp.pre[Len(lastOp.pre)] # <<>>))

\* C2: evaluate ends by returning True or False, never in an exception.
C2_EvaluateNeverRaises == result \in {"running", "True", "False"}

\* C3: commands are taken from the front of the list one at a time, an
\* operation that returns False makes evaluate return False at once, and
\* nothing is executed after evaluate has returned.
C3_FailureAborts ==
    [][/\ commands' # commands => (commands # <<>> /\ commands' = Tail(commands))
       /\ (lastOp'.kind = "op" /\ lastOp'.ret = "False") => result' = "False"
       /\ result # "running" => UNCHANGED <<commands, stack, result, lastOp>>]_vars

\* an operation has returned False with commands left, and evaluate has
\* returned False
C3_Witness ==
    /\ lastOp.kind = "op" /\ lastOp.ret = "False"
    /\ commands # <<>> /\ result = "False"

\* what C4 expects OP_CHECKSIG to return: the signature on top of the
\* stack verified with the public key beneath it
ExpectedCheckSig(pre, zz) ==
    CheckSig(pre[Len(pre)], pre[Len(pre) - 1], <<>>, zz).ret

\* C4: OP_CHECKSIG on two or more elements takes the signature and the
\* public key from the top of the stack, leaves the elements beneath them
\* as they were, and pushes encoded 1 and returns True when the signature
\* verifies, encoded 0 and returns False when it does not.
C4_CheckSigFrame ==
    (lastOp.kind = "op" /\ lastOp.cmd = 172 /\ Len(lastOp.pre) >= 2) =>
        LET rest == SubSeq(lastOp.pre, 1, Len(lastOp.pre) - 2)
        IN \/ /\ lastOp.ret = "True"
              /\ ExpectedCheckSig(lastOp.pre, z) = "True"
              /\ lastOp.post = Append(rest, encode_num(1))
           \/ /\ lastOp.ret = "False"
              /\ ExpectedCheckSig(lastOp.pre, z) # "True"
              /\ lastOp.post = Append(rest, encode_num(0))

\* C5: OP_DUP, OP_HASH256 and OP_HASH160 on an empty stack and OP_CHECKSIG
\* on fewer than 2 elements return False and leave the stack as it was,
\* and evaluate returns False.
C5_ShortStackFails ==
    (/\ lastOp.kind = "op"
     /\ \/ lastOp.cmd \in {118, 169, 170} /\ Len(lastOp.pre) < 1
        \/ lastOp.cmd = 172 /\ Len(lastOp.pre) < 2)
        => (lastOp.ret = "False" /\ lastOp.post = lastOp.pre /\ result = "False")

\* OP_CHECKSIG has been executed on a stack of one element
C5_Witness ==
    /\ lastOp.kind = "op" /\ lastOp.cmd = 172 /\ Len(lastOp.pre) = 1
    /\ result = "False" /\ stack = lastOp.pre

\* ------------------------------------------------------------------------
\* encryption.py: PrivateKey, its sign and S256Point.verify
\* ------------------------------------------------------------------------
\* int.bit_length of n >= 0
RECURSIVE BitLength(_)
BitLength(n) == IF n = 0 THEN 0 ELSE 1 + BitLength(n \div 2)

\* The bits of the significand of a Python float: 53, which is fewer than
\* the 256 bits of the order of secp256k1, and here fewer than the bits of N
FloatBits == 2

\* float(n) of an integer n >= 0, as the integer it is equal to: n rounded
\* to FloatBits significant bits, a tie going to the even significand
RoundToFloat(n) ==
    LET unit == 2 ^ (IF BitLength(n) > FloatBits THEN BitLength(n) - FloatBits ELSE 0)
        q    == n \div unit
        r    == n % unit
    IN IF 2 * r > unit \/ (2 * r = unit /\ q % 2 = 1) THEN (q + 1) * unit ELSE q * unit

\* s > N/2: N/2 is the true division of Python, a float that is N rounded
\* and then halved, and the integer s is compared with it exactly
AboveHalfN(s) == 2 * s > RoundToFloat(N)

\* an exception raised by sign
SignRaised(e) == [r |-> 0, s |-> 0, exc |-> e]

\* PrivateKey.sign once the nonce k is known
Sign(sec, zz, k) ==
    Bind(S256RMul(k, G),
         LAMBDA kG :
             IF kG.exc # "none" THEN SignRaised(kG.exc)
             ELSE IF kG.x = None THEN SignRaised("AttributeError")
             ELSE Bind(((zz + kG.x.num * sec) * ModPowNat(k, N - 2, N)) % N,
                       LAMBDA s : Signature(kG.x.num, IF AboveHalfN(s) THEN N - s ELSE s)))

\* The hashes z a message is signed under go up to MaxZ
MaxZ == 2

\* z below, at and above N
ZSamples == 0..MaxZ \cup {N, N + 2}

\* The values s of a signature that is verified without having been
\* produced by sign
SValues == {0, 1, N \div 2, N \div 2 + 1, N - 1}

\* PrivateKey.__init__ for a secret in [1, N)
EcdsaInit ==
    /\ secret \in 1..(N - 1)
    /\ point = S256RMul(secret, G)
    /\ zHash \in ZSamples
    /\ sigOut = SignRaised("pending")
    /\ verdict = "pending"
    /\ ecLast = [op |-> "init", k |-> 0]
    /\ IdleField /\ IdlePoint /\ IdleVarint /\ IdleCodec /\ IdleEval /\ IdleNum

\* sign(z): k = randint(0, N), which returns any integer from 0 to N,
\* both included
SignRandomStep ==
    /\ sigOut.exc = "pending"
    /\ \E k \in 0..N :
          /\ sigOut' = Sign(secret, zHash, k)
          /\ ecLast' = [op |-> "sign", k |-> k]
    /\ UNCHANGED <<secret, point, zHash, verdict,
                   fieldVars, pointVars, varintVars, codecVars, evalVars, numVars>>

\* sign(z, deterministic=True): deterministic_k returns the first HMAC
\* candidate with 1 <= candidate < N, which may be any of these values
SignDeterministicStep ==
    /\ sigOut.exc = "pending"
    /\ \E k \in 1..(N - 1) :
          /\ sigOut' = Sign(secret, zHash, k)
          /\ ecLast' = [op |-> "sign_deterministic", k |-> k]
    /\ UNCHANGED <<secret, point, zHash, verdict,
                   fieldVars, pointVars, varintVars, codecVars, evalVars, numVars>>

\* point.verify(z, sig) for the signature sign has returned
VerifyStep ==
    /\ sigOut.exc = "none" /\ verdict = "pending"
    /\ verdict' = S256Verify(point, zHash, sigOut)
    /\ ecLast' = [op |-> "verify", k |-> ecLast.k]
    /\ UNCHANGED <<secret, point, zHash, sigOut,
                   fieldVars, pointVars, varintVars, codecVars, evalVars, numVars>>

\* point.verify(z, Signature(r, s)) for any r in [0, N) and the values s
VerifyAnyStep ==
    /\ sigOut.exc = "pending"
    /\ \E r \in 0..(N - 1), s \in SValues :
          /\ sigOut' = Signature(r, s)
          /\ verdict' = S256Verify(point, zHash, Signature(r, s))
          /\ ecLast' = [op |-> "verify_any", k |-> 0]
    /\ UNCHANGED <<secret, point, zHash,
                   fieldVars, pointVars, varintVars, codecVars, evalVars, numVars>>

EcdsaNext == SignRandomStep \/ SignDeterministicStep \/ VerifyStep \/ VerifyAnyStep

SpecEcdsa == EcdsaInit /\ [][EcdsaNext]_vars

\* C13: for every secret in [1, N), every z and every nonce sign can draw
\* or derive, sign returns a Signature, and verify of the public key
\* secret*G, z and that signature returns True.
C13_SignThenVerify ==
    /\ ecLast.op \in {"sign", "sign_deterministic"} => sigOut.exc = "none"
    /\ ecLast.op = "verify" => verdict = "True"

\* u*G + v*publicKey of verify, with the inverse of s taken by search
TotalOf(pub, zz, sg) ==
    LET s_inv == IF Invertible(sg.s, N) THEN ModInverse(sg.s, N) ELSE 0
    IN PointAdd(S256RMul((zz * s_inv) % N, G), S256RMul((sg.r * s_inv) % N, pub))

\* C14: verify has no exception path: for a public key of the curve, any
\* z and any (r, s) with r and s in [0, N), s == 0 and a sum u*G +
\* v*publicKey at infinity included, it returns True or False, and True
\* exactly when the x coordinate of u*G + v*publicKey equals r.
C14_VerifyReturnsBoolean ==
    ecLast.op = "verify_any" =>
        /\ verdict \in {"True", "False"}
        /\ verdict = "True" <=>
              (TotalOf(point, zHash, sigOut).x # None
               /\ TotalOf(point, zHash, sigOut).x.num = sigOut.r)

\* C15: every signature sign returns is in low-s form: 2 * s <= N.
C15_LowS ==
    (ecLast.op \in {"sign", "sign_deterministic", "verify"} /\ sigOut.exc = "none")
        => 2 * sigOut.s <= N

\* ------------------------------------------------------------------------
\* Script numbers: encode_num(n), then decode_num of those bytes
\* ------------------------------------------------------------------------
\* Every n from -MaxNum to MaxNum is tried, and the values around the
\* lengths of two and three bytes
MaxNum == 300

NumSamples ==
    (-MaxNum)..MaxNum
    \cup {32767, 32768, 65535, 65536, 8388607, 8388608, 16777215}
    \cup {-32767, -32768, -65535, -65536, -8388607, -8388608, -16777215}

NumInit ==
    /\ nIn \in NumSamples
    /\ nBytes = <<>>
    /\ nOut = 0
    /\ nPc = "encode"
    /\ IdleField /\ IdlePoint /\ IdleVarint /\ IdleCodec /\ IdleEval /\ IdleEcdsa

EncodeNumStep ==
    /\ nPc = "encode"
    /\ nBytes' = encode_num(nIn)
    /\ nPc' = "decode"
    /\ UNCHANGED <<nIn, nOut, fieldVars, pointVars, varintVars, codecVars, evalVars, ecdsaVars>>

DecodeNumStep ==
    /\ nPc = "decode"
    /\ nOut' = decode_num(nBytes)
    /\ nPc' = "done"
    /\ UNCHANGED <<nIn, nBytes, fieldVars, pointVars, varintVars, codecVars, evalVars, ecdsaVars>>

NumNext == EncodeNumStep \/ DecodeNumStep

SpecNum == NumInit /\ [][NumNext]_vars

\* C16: decode_num(encode_num(n)) == n for every integer n, positive,
\* negative and zero, 128, -128, 255 and 32768 included; encode_num(0) is
\* the empty byte string and decode_num of it is 0.
C16_NumRoundTrip ==
    /\ (nPc \in {"decode", "done"} /\ nIn = 0) => nBytes = <<>>
    /\ (nPc \in {"decode", "done"} /\ nIn # 0) => nBytes # <<>>
    /\ nPc = "done" => nOut = nIn

\* -128, whose magnitude has the high bit of its top byte set, has made
\* the round trip through two bytes
C16_Witness ==
    /\ nPc = "done" /\ nIn = -128 /\ nBytes = <<128, 128>> /\ nOut = -128

\* 32768 has made the round trip through three bytes
C16_WitnessPadded ==
    /\ nPc = "done" /\ nIn = 32768 /\ nBytes = <<0, 128, 0>> /\ nOut = 32768

====
